---- MODULE Spec2Model ----
(***************************************************************************)
(* Model of lunispang/tictactoe-ai (src/main.rs): the Board state machine, *)
(* the memoized minimax search (MiniMaxNode, minimax) and the game loop of *)
(* main.                                                                   *)
(***************************************************************************)
EXTENDS Integers, Sequences, FiniteSets, TLC

VARIABLES
    board,  \* the Board of main, or the Board a driver works on
    pc,     \* the position in main, or the name of the driver
    call,   \* the last call of place: who made it, index, Board before, result
    found,  \* the MiniMaxNode the last search returned, while it is in use
    auto,   \* TRUE while every move so far was the one calculate returned
    table   \* the memory of the last search as it returned, with the height of
            \* its call tree and the number of boards it expanded

vars == <<board, pc, call, found, auto, table>>

\* Largest index a caller passes to place; the board has cells 0..8, so the
\* indices above 8 are the out-of-range calls.
MaxIndex == 9

\* ------------------------------------------------------------------ Mark

O == "O"
X == "X"
Mark == {O, X}

other(m) == IF m = O THEN X ELSE O

to_value(m) == IF m = O THEN -1 ELSE 1

\* ----------------------------------------------------------------- State

Turn(m) == <<"Turn", m>>
Won(m) == <<"Won", m>>
Tie == <<"Tie">>

IsTurn(s) == s[1] = "Turn"

\* ----------------------------------------------------------------- Board

\* Option<Mark>::None
None == "None"

\* marks.len()
NumCells == 9

Cells == 0 .. (NumCells - 1)

\* Board::new
NewBoard == [marks |-> [i \in Cells |-> None], state |-> Turn(X)]

\* The cells visited by marks.iter().skip(start).step_by(step).take(3)
Line(start, step) == <<start, start + step, start + 2 * step>>

\* The loops with `for diag in 0..1`: the diagonal from cell 2 is not tried
LineOrder_one_diagonal ==
    << Line(0, 1), Line(3, 1), Line(6, 1),
       Line(0, 3), Line(1, 3), Line(2, 3),
       Line(0, 4) >>

\* The lines the loops of get_new_state try, in their order: rows (skip
\* row * 3), columns (skip col, step_by 3), diagonals (skip diag * 2, step_by
\* 4 - diag * 2)
LineOrder ==
    << Line(0, 1), Line(3, 1), Line(6, 1),
       Line(0, 3), Line(1, 3), Line(2, 3),
       Line(0, 4), Line(2, 2) >>

\* One iteration of those loops: the first cell of the line holds a mark and
\* .all(|&m| m == mark) holds of its cells, so that Won is returned
LineWon(marks, l) ==
    /\ marks[l[1]] # None
    /\ marks[l[2]] = marks[l[1]]
    /\ marks[l[3]] = marks[l[1]]

LineSet == {LineOrder[k] : k \in 1 .. Len(LineOrder)}

\* The first line in LineOrder that is won
FirstWon(marks) ==
    CHOOSE k \in 1 .. Len(LineOrder) :
        /\ LineWon(marks, LineOrder[k])
        /\ \A j \in 1 .. (k - 1) : ~LineWon(marks, LineOrder[j])

\* is_full with any in the place of all: true once one cell is taken
is_full_any(self) == \E c \in Cells : self.marks[c] # None

\* is_full
is_full(self) == \A c \in Cells : self.marks[c] # None

\* get_new_state testing for a full board before it looks for a won line
get_new_state_tie_first(self) ==
    IF \A c \in Cells : self.marks[c] # None
    THEN Tie
    ELSE IF \E l \in LineSet : LineWon(self.marks, l)
    THEN Won(self.marks[LineOrder[FirstWon(self.marks)][1]])
    ELSE self.state

\* get_new_state without lines 113-115: a full board with no line won keeps
\* the stored state
get_new_state_no_tie(self) ==
    IF \E l \in LineSet : LineWon(self.marks, l)
    THEN Won(self.marks[LineOrder[FirstWon(self.marks)][1]])
    ELSE self.state

\* get_new_state without the loop `for col in 0..3`: a won column is not seen
get_new_state_no_columns(self) ==
    IF \E l \in LineSet : l[2] - l[1] # 3 /\ LineWon(self.marks, l)
    THEN LET k == CHOOSE k \in 1 .. Len(LineOrder) :
                      /\ LineOrder[k][2] - LineOrder[k][1] # 3
                      /\ LineWon(self.marks, LineOrder[k])
         IN  Won(self.marks[LineOrder[k][1]])
    ELSE IF \A c \in Cells : self.marks[c] # None
    THEN Tie
    ELSE self.state

\* get_new_state: Won for the first won line in loop order, else Tie when
\* every cell is Some, else the stored state
get_new_state(self) ==
    IF \E l \in LineSet : LineWon(self.marks, l)
    THEN Won(self.marks[LineOrder[FirstWon(self.marks)][1]])
    ELSE IF \A c \in Cells : self.marks[c] # None
    THEN Tie
    ELSE self.state

\* Option<()> results of place
SomeUnit == "Some"

\* place without the test of lines 123-125: an occupied cell is overwritten
place_overwrites(self, index) ==
    IF index >= NumCells
    THEN [ret |-> None, board |-> self]
    ELSE IF IsTurn(self.state)
    THEN LET mark == self.state[2]
             placed == [marks |-> [self.marks EXCEPT ![index] = mark],
                        state |-> Turn(other(mark))]
         IN  [ret |-> SomeUnit,
              board |-> [placed EXCEPT !.state = get_new_state(placed)]]
    ELSE [ret |-> None, board |-> self]

\* place without line 129: the turn does not pass to the other mark
place_keeps_turn(self, index) ==
    IF index >= NumCells
    THEN [ret |-> None, board |-> self]
    ELSE IF self.marks[index] # None
    THEN [ret |-> None, board |-> self]
    ELSE IF IsTurn(self.state)
    THEN LET mark == self.state[2]
             placed == [marks |-> [self.marks EXCEPT ![index] = mark],
                        state |-> Turn(mark)]
         IN  [ret |-> SomeUnit,
              board |-> [placed EXCEPT !.state = get_new_state(placed)]]
    ELSE [ret |-> None, board |-> self]

\* place without line 128: the turn passes but no mark is written
place_no_write(self, index) ==
    IF index >= NumCells
    THEN [ret |-> None, board |-> self]
    ELSE IF self.marks[index] # None
    THEN [ret |-> None, board |-> self]
    ELSE IF IsTurn(self.state)
    THEN LET mark == self.state[2]
             placed == [marks |-> self.marks, state |-> Turn(other(mark))]
         IN  [ret |-> SomeUnit,
              board |-> [placed EXCEPT !.state = get_new_state(placed)]]
    ELSE [ret |-> None, board |-> self]

\* place: the result and the board afterwards
place(self, index) ==
    IF index >= NumCells
    THEN [ret |-> None, board |-> self]
    ELSE IF self.marks[index] # None
    THEN [ret |-> None, board |-> self]
    ELSE IF IsTurn(self.state)
    THEN LET mark == self.state[2]
             placed == [marks |-> [self.marks EXCEPT ![index] = mark],
                        state |-> Turn(other(mark))]
         IN  [ret |-> SomeUnit,
              board |-> [placed EXCEPT !.state = get_new_state(placed)]]
    ELSE [ret |-> None, board |-> self]

\* -------------------------------------------------------------- NodeType

Unfinished(bd) == <<"Unfinished", bd>>
Value(i) == <<"Value", i>>

\* A panic (unwrap on None, or the panic! in min_by_key) aborts the search
Panicked == [kind |-> <<"Panic">>, moves |-> <<>>]

\* MiniMaxNode::new
NewNode(bd) == [kind |-> Unfinished(bd), moves |-> <<>>]

\* HashMap::new()
EmptyMemory == << >>

\* A key that covers the state of the Board alone, not its marks
BoardKey_state_only(bd) == bd.state

\* The HashMap key of a Board: the derived Eq/Hash cover marks and state
BoardKey(bd) == bd

\* memory.contains_key(&new_board)
contains_key(memory, bd) == BoardKey(bd) \in DOMAIN memory

\* minimax without line 216: the result is returned but not stored
insert_nothing(memory, bd, ret) == memory

\* memory.insert(board, ret.clone())
insert(memory, bd, ret) == (BoardKey(bd) :> ret) @@ memory

\* possible with the filter inverted: the indices of the occupied cells
possible_occupied(bd) == SelectSeq([k \in 1 .. NumCells |-> k - 1],
                                   LAMBDA c : bd.marks[c] # None)

\* possible: the indices of the empty cells, ascending
possible(bd) == SelectSeq([k \in 1 .. NumCells |-> k - 1],
                             LAMBDA c : bd.marks[c] = None)

\* The key with the length of the path subtracted instead of multiplied
Key_minus_len(n, m) == n.kind[2] * to_value(m) - Len(n.moves)

\* The key of min_by_key for a result n at a board where m moves
Key(n, m) == n.kind[2] * to_value(m) * Len(n.moves)

\* The fold of min_by_key from element k on: best is the index of the least
\* key so far; a later element replaces it only when its key is strictly less
MinFrom[results \in Any, m \in Any, k \in Any, best \in Any] ==
    IF k > Len(results)
    THEN best
    ELSE MinFrom[results, m, k + 1,
                 IF Key(results[k], m) < Key(results[best], m) THEN k ELSE best]

\* Iterator::min_by_key: the first element of the least key, or a panic when
\* the closure meets an Unfinished node
SelectMin(results, m) ==
    IF \E k \in 1 .. Len(results) : results[k].kind[1] # "Value"
    THEN Panicked
    ELSE results[MinFrom[results, m, 2, 1]]

\* The body of the loop `for mve in possible`: the node pushed for mve
ChildNode(node, bd, mve, memory, memo) ==
    LET placed == place(bd, mve)
    IN  IF placed.ret = None
        THEN Panicked
        ELSE IF memo /\ contains_key(memory, placed.board)
        THEN memory[BoardKey(placed.board)]
        ELSE [moves |-> Append(node.moves, mve), kind |-> Unfinished(placed.board)]

\* The loop body placing on board itself, with no clone
BoardAfter_in_place(bd, mve) == place(bd, mve).board

\* board after one iteration of the loop: lines 189-190 place on new_board,
\* the clone, so board is as it was
BoardAfter(bd, mve) == bd

\* The loop `for mve in possible` from the k-th candidate on: results, and
\* board as the loop leaves it
PushResults[node \in Any, bd \in Any, cells \in Any, k \in Any, results \in Any, memory \in Any, memo \in Any] ==
    IF k > Len(cells)
    THEN [results |-> results, board |-> bd]
    ELSE PushResults[node, BoardAfter(bd, cells[k]), cells, k + 1,
                     Append(results, ChildNode(node, bd, cells[k], memory, memo)),
                     memory, memo]

\* What a call of minimax returns and leaves: the node, the table, and two
\* measures of the call: depth, the height of the tree of calls below it, and
\* expanded, the number of calls that went through the Turn branch
Returned(node, memory, depth, expanded) ==
    [node |-> node, memory |-> memory, depth |-> depth, expanded |-> expanded]

\* results.into_iter().map(|r| minimax(r, memory)).collect(), from element k
\* on; mm is minimax, and each call is given the table the last one left; a
\* call that panics ends the map there
MapMinimax[mm \in Any, results \in Any, k \in Any, done \in Any, memory \in Any, memo \in Any, depth \in Any, expanded \in Any] ==
    IF k > Len(results)
    THEN [nodes |-> done, memory |-> memory, depth |-> depth, expanded |-> expanded]
    ELSE LET r == mm[results[k], memory, memo]
         IN  MapMinimax[mm, results,
                        IF r.node.kind[1] = "Panic" THEN Len(results) + 1 ELSE k + 1,
                        Append(done, r.node), r.memory, memo,
                        IF r.depth + 1 > depth THEN r.depth + 1 ELSE depth,
                        expanded + r.expanded]

\* minimax(node, memory), and with memo = FALSE the same search with the table
\* disabled: contains_key never consulted, nothing inserted, every child
\* re-explored.
MinimaxWith[node \in Any, memory \in Any, memo \in Any] ==
    IF node.kind[1] # "Unfinished"
    THEN Returned(node, memory, 0, 0)
    ELSE LET bd == node.kind[2]
             state == get_new_state(bd)
         IN  IF state[1] = "Won"
             THEN Returned([moves |-> node.moves, kind |-> Value(to_value(state[2]))],
                           memory, 0, 0)
             ELSE IF state[1] = "Tie"
             THEN Returned([moves |-> node.moves, kind |-> Value(0)], memory, 0, 0)
             ELSE LET m == state[2]
                      cells == possible(bd)
                      pushed == PushResults[node, bd, cells, 1, <<>>, memory, memo]
                      results == pushed.results
                  IN  IF \E k \in 1 .. Len(results) : results[k] = Panicked
                      THEN Returned(Panicked, memory, 0, 1)
                      ELSE LET mapped == MapMinimax[MinimaxWith, results, 1, <<>>, memory, memo, 0, 0]
                               ret == IF Len(mapped.nodes) = 0
                                      THEN Panicked
                                      ELSE SelectMin(mapped.nodes, m)
                           IN  IF ret = Panicked
                               THEN Returned(Panicked, mapped.memory,
                                             mapped.depth, mapped.expanded + 1)
                               ELSE Returned(ret,
                                             IF memo
                                             THEN insert(mapped.memory, pushed.board, ret)
                                             ELSE mapped.memory,
                                             mapped.depth, mapped.expanded + 1)

minimax(node, memory) == MinimaxWith[node, memory, TRUE]

\* calculate, lines 164-165: the result of the search with a new table
Search(node) == minimax(node, EmptyMemory).node

\* What stands for the index when calculate panics and returns none
NoIndex == -1

\* *res.moves.last().unwrap(): the last move of the result, or a panic
last_unwrap(res) ==
    IF res = Panicked \/ Len(res.moves) = 0
    THEN NoIndex
    ELSE res.moves[Len(res.moves)]

\* MiniMaxNode::calculate
calculate(node) == last_unwrap(Search(node))

\* ------------------------------------------------------------- main loop

NoCall == [by |-> "nobody", index |-> 0, before |-> NewBoard, ret |-> None]
NoRes == [kind |-> <<"NoRes">>, moves |-> <<>>]
NoTable == [memory |-> EmptyMemory, depth |-> 0, expanded |-> 0]

\* The place calls of main and of the drivers, with what they returned
Called(by, index) ==
    [by |-> by, index |-> index, before |-> board, ret |-> place(board, index).ret]

\* `while let State::Turn(_) = board.state`: where main goes after an iteration
LoopTest(b) == IF IsTurn(b.state) THEN "prompt" ELSE "done"

\* let mut board = Board::new()
Init ==
    /\ board = NewBoard
    /\ pc = "prompt"
    /\ call = NoCall
    /\ found = NoRes
    /\ auto = FALSE
    /\ table = NoTable

\* read_line gives text that parses to no usize: `continue`
ReadUnparsable ==
    /\ pc = "prompt"
    /\ UNCHANGED vars

\* HumanMove without the `continue` of line 250: a failed place is followed by
\* the test of lines 252-256 like a successful one
HumanMove_no_continue(input) ==
    /\ pc = "prompt"
    /\ LET placed == place(board, input)
       IN  /\ call' = Called("human", input)
           /\ board' = placed.board
           /\ pc' = IF ~is_full(placed.board) /\ IsTurn(get_new_state(placed.board))
                    THEN "bot"
                    ELSE LoopTest(placed.board)
    /\ UNCHANGED <<found, auto, table>>

\* HumanMove without the test of lines 252-256: the bot moves after every
\* successful place
HumanMove_always_bot(input) ==
    /\ pc = "prompt"
    /\ LET placed == place(board, input)
       IN  /\ call' = Called("human", input)
           /\ board' = placed.board
           /\ pc' = IF placed.ret = None THEN "prompt" ELSE "bot"
    /\ UNCHANGED <<found, auto, table>>

\* read_line gives a usize: place it; on None `continue`; else the bot's turn
\* when the board is not full and get_new_state is a Turn
HumanMove(input) ==
    /\ pc = "prompt"
    /\ LET placed == place(board, input)
       IN  /\ call' = Called("human", input)
           /\ board' = placed.board
           /\ pc' = IF placed.ret = None
                    THEN "prompt"
                    ELSE IF ~is_full(placed.board) /\ IsTurn(get_new_state(placed.board))
                    THEN "bot"
                    ELSE LoopTest(placed.board)
    /\ UNCHANGED <<found, auto, table>>

\* let mve = MiniMaxNode::new(&board); board.place(mve.calculate() as usize);
BotMove ==
    /\ pc = "bot"
    /\ \E mve \in {calculate(NewNode(board))} :
           IF mve = NoIndex
           THEN /\ pc' = "panic"
                /\ UNCHANGED <<board, call>>
           ELSE /\ call' = Called("bot", mve)
                /\ board' = place(board, mve).board
                /\ pc' = LoopTest(board')
    /\ UNCHANGED <<found, auto, table>>

\* After the loop: print the board and the outcome; a Turn state panics
Finish ==
    /\ pc = "done"
    /\ pc' = IF IsTurn(board.state) THEN "panic" ELSE "exit"
    /\ UNCHANGED <<board, call, found, auto, table>>

Next ==
    \/ ReadUnparsable
    \/ \E input \in 0 .. MaxIndex : HumanMove(input)
    \/ BotMove
    \/ Finish

Spec == Init /\ [][Next]_vars

\* ---------------------------------------------- driver: any place calls

InitPlace ==
    /\ board = NewBoard
    /\ pc = "place"
    /\ call = NoCall
    /\ found = NoRes
    /\ auto = FALSE
    /\ table = NoTable

\* board.place(index), for any index, whatever the state of the board
PlaceCall(index) ==
    /\ pc = "place"
    /\ call' = Called("driver", index)
    /\ board' = place(board, index).board
    /\ UNCHANGED <<pc, found, auto, table>>

NextPlace == \E index \in 0 .. MaxIndex : PlaceCall(index)

SpecPlace == InitPlace /\ [][NextPlace]_vars

\* ------------------------------- driver: place calls and engine searches

InitSearch ==
    /\ board = NewBoard
    /\ pc = "search"
    /\ call = NoCall
    /\ found = NoRes
    /\ auto = TRUE
    /\ table = NoTable

\* board.place(index) by the caller, for any index
PlaceAny(index) ==
    /\ pc = "search"
    /\ board' = place(board, index).board
    /\ found' = NoRes
    /\ table' = NoTable
    /\ auto' = FALSE
    /\ UNCHANGED <<pc, call>>

\* MiniMaxNode::new(&board) and the search of calculate, on a board in a Turn
RunSearch ==
    /\ pc = "search"
    /\ found = NoRes
    /\ IsTurn(board.state)
    /\ \E r \in {minimax(NewNode(board), EmptyMemory)} :
           /\ found' = r.node
           /\ table' = [memory |-> r.memory, depth |-> r.depth,
                        expanded |-> r.expanded]
    /\ pc' = IF last_unwrap(found') = NoIndex THEN "panic" ELSE pc
    /\ UNCHANGED <<board, call, auto>>

\* board.place(index) of the index calculate returned
PlaceBest ==
    /\ pc = "search"
    /\ found # NoRes
    /\ board' = place(board, last_unwrap(found)).board
    /\ found' = NoRes
    /\ table' = NoTable
    /\ UNCHANGED <<pc, call, auto>>

NextSearch ==
    \/ \E index \in 0 .. MaxIndex : PlaceAny(index)
    \/ RunSearch
    \/ PlaceBest

SpecSearch == InitSearch /\ [][NextSearch]_vars

\* The same driver, named apart for the comparison of the search with the
\* search that has its table disabled
SpecMemo == InitSearch /\ [][NextSearch]_vars

\* ---------------------------------------------------------------- claims

\* The win line set of the data model: 3 rows, 3 columns, 2 diagonals
WinLines ==
    { {0, 1, 2}, {3, 4, 5}, {6, 7, 8},
      {0, 3, 6}, {1, 4, 7}, {2, 5, 8},
      {0, 4, 8}, {2, 4, 6} }

\* m occupies all three cells of at least one win line
Fills(marks, m) == \E l \in WinLines : \A c \in l : marks[c] = m

Full(marks) == \A c \in Cells : marks[c] # None

Count(marks, m) == Cardinality({c \in Cells : marks[c] = m})

EmptyCells(marks) == {c \in Cells : marks[c] = None}

\* The state a recomputation from the cells alone gives, when no line is won
\* and the board is not full: X moves when the marks are equally many
NextToMove(marks) == IF Count(marks, X) = Count(marks, O) THEN X ELSE O

\* The index the search result held in found stands for
FoundIndex == last_unwrap(found)

\* C1: in the game loop of main the computer (O) never loses: no reachable
\* state of the game has the Phase Won(X).
C1_BotNeverLoses == board.state # Won(X)

\* The game-theoretic value of a board: the value of the winner, 0 for a tie,
\* and in a Turn the best child value for the mover (greatest for X, least
\* for O)
GameValue[b \in Any] ==
    IF b.state[1] = "Won" THEN to_value(b.state[2])
    ELSE IF b.state = Tie THEN 0
    ELSE LET vals == {GameValue[place(b, c).board] : c \in EmptyCells(b.marks)}
         IN  IF b.state[2] = X
             THEN CHOOSE v \in vals : \A w \in vals : w <= v
             ELSE CHOOSE v \in vals : \A w \in vals : v <= w

\* C2: on every reachable board in a Turn the index calculate returns is
\* optimal: placing it keeps the game-theoretic value of the board (a forced
\* win stays a forced win, a forced tie stays a forced tie).
C2_BestMoveOptimal ==
    found # NoRes =>
        /\ FoundIndex \in Cells
        /\ GameValue[place(board, FoundIndex).board] = GameValue[board]

\* C3: on every reachable board in a Turn the index calculate returns is in
\* 0..8 and names a cell that is empty in the board, so that placing it on
\* the board succeeds.
C3_BestMoveIsEmptyCell ==
    found # NoRes =>
        /\ FoundIndex \in 0 .. 8
        /\ board.marks[FoundIndex] = None
        /\ place(board, FoundIndex).ret = SomeUnit

\* A search has returned on a board that holds marks of both players
C3_Witness ==
    /\ found # NoRes
    /\ FoundIndex \in Cells
    /\ Count(board.marks, X) >= 1
    /\ Count(board.marks, O) >= 1

\* The board of the scenario: X at 0 and 1, O at 3 and 4, X to move
C4_Board ==
    [marks |-> [c \in Cells |-> IF c \in {0, 1} THEN X
                                ELSE IF c \in {3, 4} THEN O
                                ELSE None],
     state |-> Turn(X)]

\* C4: on the board with X at 0 and 1, O at 3 and 4 and X to move, calculate
\* returns index 2, the immediate win.
C4_ReturnsWinningIndex ==
    (board = C4_Board /\ found # NoRes) => FoundIndex = 2

\* C5: from the empty board, placing for each side in turn the index calculate
\* returns never ends in Won(O).
C5_SelfPlayNeverWonO == auto => board.state # Won(O)

\* The game both sides played with calculate has ended
C5_Witness == auto /\ ~IsTurn(board.state) /\ Full(board.marks)

\* C6: place fails and leaves the cells and the Phase unchanged whenever the
\* index is greater than 8, or the cell is occupied, or the Phase is Won or
\* Tie.
C6_InvalidPlaceFails ==
    (/\ call.by = "driver"
     /\ \/ call.index > 8
        \/ call.before.marks[call.index] # None
        \/ ~IsTurn(call.before.state))
    => (call.ret = None /\ board = call.before)

\* A place on an empty cell failed because the game had ended
C6_Witness ==
    /\ call.by = "driver"
    /\ call.index <= 8
    /\ ~IsTurn(call.before.state)
    /\ call.before.marks[call.index] = None
    /\ call.ret = None

\* C7: a successful place on a board in Turn(m) sets the cell to m, leaves
\* every other cell unchanged, and stores Won(m) if m now fills a win line,
\* Tie if the board is full with no line won, and Turn(other mark) otherwise.
C7_SuccessfulPlace ==
    (call.by = "driver" /\ call.ret = SomeUnit) =>
        /\ IsTurn(call.before.state)
        /\ LET m == call.before.state[2]
           IN  /\ board.marks[call.index] = m
               /\ \A c \in Cells \ {call.index} :
                      board.marks[c] = call.before.marks[c]
               /\ board.state = IF Fills(board.marks, m) THEN Won(m)
                                ELSE IF Full(board.marks) THEN Tie
                                ELSE Turn(other(m))

\* A successful place filled the board without winning a line
C7_Witness ==
    /\ call.by = "driver"
    /\ call.ret = SomeUnit
    /\ board.state = Tie

\* C8: in every board reachable by place calls, successful or failed, the
\* stored Phase is the one recomputed from the cells alone, and get_new_state
\* returns exactly the stored Phase.
C8_PhaseIsDerived ==
    /\ \A m \in Mark : Fills(board.marks, m) => board.state = Won(m)
    /\ (\A m \in Mark : ~Fills(board.marks, m)) =>
           board.state = IF Full(board.marks) THEN Tie
                         ELSE Turn(NextToMove(board.marks))
    /\ get_new_state(board) = board.state

\* A place failed on a board where a line is won
C8_Witness ==
    /\ call.by = "driver"
    /\ call.ret = None
    /\ Fills(board.marks, O)

\* C9: on every reachable board get_new_state returns Won(mark) exactly when
\* mark, and only mark, fills a win line; Tie exactly when the board is full
\* and no line is won; and Turn(next) otherwise.
C9_Evaluate ==
    LET s == get_new_state(board)
        won(m) == Fills(board.marks, m) /\ ~Fills(board.marks, other(m))
        tie == Full(board.marks) /\ \A m \in Mark : ~Fills(board.marks, m)
    IN  /\ \A m \in Mark : s = Won(m) <=> won(m)
        /\ s = Tie <=> tie
        /\ (~tie /\ \A m \in Mark : ~won(m)) => s = Turn(NextToMove(board.marks))

\* get_new_state returns Won on a full board whose last cell won a diagonal
C9_Witness ==
    /\ Full(board.marks)
    /\ get_new_state(board) = Won(X)
    /\ \A c \in {2, 4, 6} : board.marks[c] = X

\* C10: on every reachable board in a Turn, the search with the memoization
\* table and the search with the table disabled return results of the same
\* value.
C10_MemoSameValue ==
    found # NoRes =>
        MinimaxWith[NewNode(board), EmptyMemory, FALSE].node.kind = found.kind

\* A search has returned whose table held boards to reuse
C10_Witness ==
    /\ found # NoRes
    /\ found.kind[1] = "Value"
    /\ Cardinality(EmptyCells(board.marks)) >= 4
    /\ DOMAIN minimax(NewNode(board), EmptyMemory).memory # {}

\* The cells of the scenario: X O X / O X O / O X _, cell 8 empty
C11_Marks ==
    [c \in Cells |-> <<X, O, X, O, X, O, O, X, None>>[c + 1]]

\* C11 as stated: on the board [X,O,X, O,X,O, O,X,_] get_new_state returns Tie
\* and is_full returns true.
C11_TieAndFull ==
    board.marks = C11_Marks => (get_new_state(board) = Tie /\ is_full(board))

\* C11, amended: on the board [X,O,X, O,X,O, O,X,_], whose cell 8 is empty and
\* where no line is won, get_new_state returns the stored Phase Turn(X) and
\* is_full returns false.
C11_TurnAndNotFull ==
    board.marks = C11_Marks =>
        /\ get_new_state(board) = Turn(X)
        /\ board.state = Turn(X)
        /\ ~is_full(board)

\* A successful place has produced the board of the scenario
C11_Witness ==
    /\ board.marks = C11_Marks
    /\ call.by = "driver"
    /\ call.ret = SomeUnit

\* k holds every mark of b in its place
Extends(k, b) == \A c \in Cells : b.marks[c] # None => k.marks[c] = b.marks[c]

\* C12: a search never mutates its input: when it has returned, the board the
\* root call evaluated and stored its result under is the caller's board,
\* cells and Phase, and every board the search placed on is a copy that keeps
\* the marks of the caller's board.
C12_SearchLeavesBoard ==
    found # NoRes =>
        /\ contains_key(table.memory, board)
        /\ table.memory[BoardKey(board)] = found
        /\ \A k \in DOMAIN table.memory : Extends(k, board)

\* A search has returned that placed on copies of a board with marks on it
C12_Witness ==
    /\ found # NoRes
    /\ Cardinality(DOMAIN table.memory) > 1
    /\ Count(board.marks, X) = 2

\* C13: the value of the node a search returns is the game-theoretic value of
\* the board: the child value most favourable to the mover (greatest for X,
\* least for O), +1 for a forced X win, 0 for a forced tie, -1 for a forced O
\* win.
C13_ValueIsMinimax ==
    found # NoRes => found.kind = Value(GameValue[board])

\* C14: the index calculate returns is the first move of the path the root
\* chose, a move from the input board to the child the root selected.
C14_FirstMoveOfPath ==
    found # NoRes =>
        /\ Len(found.moves) > 0
        /\ FoundIndex = found.moves[1]

\* C15: the panics of the search are unreachable: the search returns a Value
\* (no child result is Unfinished when the least key is selected, no place on
\* a child fails), and every entry of the table is a Value.
C15_NoPanic ==
    found # NoRes =>
        /\ found.kind[1] = "Value"
        /\ pc # "panic"
        /\ \A k \in DOMAIN table.memory : table.memory[k].kind[1] = "Value"

\* A search has returned that stored ten boards or more in its table
C15_Witness ==
    /\ found # NoRes
    /\ found.kind[1] = "Value"
    /\ Cardinality(DOMAIN table.memory) >= 10

\* C16: every search on a reachable board in a Turn returns, and the depth of
\* its recursion is at most the number of empty cells of the board (at most
\* 9), each child board having one empty cell fewer than its parent.
C16_DepthBounded ==
    /\ IsTurn(board.state) =>
           \A c \in EmptyCells(board.marks) :
               Cardinality(EmptyCells(place(board, c).board.marks))
                   < Cardinality(EmptyCells(board.marks))
    /\ found # NoRes =>
           /\ table.depth <= Cardinality(EmptyCells(board.marks))
           /\ table.depth <= 9

\* A search from the empty board has returned from recursion of depth 9
C16_Witness ==
    /\ found # NoRes
    /\ board = NewBoard
    /\ table.depth = 9

\* C17: within one search no board in a Turn is expanded twice: the number of
\* expansions is the number of boards in the table, which began empty, and
\* the boards in the table are boards in a Turn grown from the input board.
C17_ExpandedOnce ==
    found # NoRes =>
        /\ table.expanded = Cardinality(DOMAIN table.memory)
        /\ \A k \in DOMAIN table.memory : IsTurn(k.state) /\ Extends(k, board)

\* A search has returned that expanded a hundred boards or more
C17_Witness ==
    /\ found # NoRes
    /\ table.expanded >= 100

\* The win lines that one mark occupies in full
LinesFilled(marks) ==
    {l \in WinLines : \E m \in Mark : \A c \in l : marks[c] = m}

\* C18 as stated: in every board reachable through place at most one of the 8
\* win lines is fully occupied by a single mark.
C18_AtMostOneLine == Cardinality(LinesFilled(board.marks)) <= 1

\* C18, amended: in every board reachable through place at most one mark
\* occupies win lines in full, and it occupies at most two, which arise
\* together and share a cell.
C18_OneWinner ==
    /\ ~(Fills(board.marks, X) /\ Fills(board.marks, O))
    /\ Cardinality(LinesFilled(board.marks)) <= 2
    /\ \A l1, l2 \in LinesFilled(board.marks) : l1 \cap l2 # {}

\* A successful place has completed two win lines at once
C18_Witness ==
    /\ Cardinality(LinesFilled(board.marks)) = 2
    /\ call.by = "driver"
    /\ call.ret = SomeUnit
    /\ LinesFilled(call.before.marks) = {}

\* C19: in the game loop marks alternate: the human is prompted in Turn(X),
\* the bot places in Turn(O) and its place succeeds, and the X marks are as
\* many as the O marks or one more.
C19_MarksAlternate ==
    /\ pc = "prompt" => board.state = Turn(X)
    /\ pc = "bot" => board.state = Turn(O)
    /\ call.by = "bot" => (call.before.state = Turn(O) /\ call.ret = SomeUnit)
    /\ Count(board.marks, X) - Count(board.marks, O) \in {0, 1}

\* The bot has placed its third mark and the human is prompted again
C19_Witness ==
    /\ call.by = "bot"
    /\ call.ret = SomeUnit
    /\ pc = "prompt"
    /\ Count(board.marks, O) = 3

\* C20: in the game loop the search is invoked only on a board in a Turn with
\* an empty cell, the path of its result is not empty, and no unwrap panics.
C20_SearchOnOpenTurn ==
    /\ pc = "bot" =>
           /\ IsTurn(board.state)
           /\ EmptyCells(board.marks) # {}
    /\ call.by = "bot" => call.index \in EmptyCells(call.before.marks)
    /\ pc # "panic"

\* The bot has searched a board with two empty cells and placed the result
C20_Witness ==
    /\ call.by = "bot"
    /\ call.ret = SomeUnit
    /\ Cardinality(EmptyCells(call.before.marks)) = 2


====
